---- MODULE Spec2Model ----
(***************************************************************************)
(* use-immer-observable: the observable mutation-tracking container.       *)
(*                                                                         *)
(* The model follows the latest revision of useImmerObservable             *)
(* (src/src/useImmerObservable.ts, lines 152-280): the React state, the    *)
(* proxied shadow root {set: ...}, the batch queue and the batch flag.     *)
(* Objects live in a heap so that reference identity, aliasing with the    *)
(* caller's objects, structuredClone and Immer's copy-on-write and         *)
(* auto-freeze are what the code makes them.                               *)
(*                                                                         *)
(* The state type used is  T = { a: number, u?: { n: number } }.           *)
(***************************************************************************)
EXTENDS Integers, Sequences, FiniteSets, TLC

VARIABLES heap, state, proxyRoot, proxyCache, wrappers, kept, batchQueue,
          batchUpdate, saved, orig, writes, mutations, applied, discarded, last

vars == <<heap, state, proxyRoot, proxyCache, wrappers, kept, batchQueue,
          batchUpdate, saved, orig, writes, mutations, applied, discarded, last>>

(***************************************************************************)
(* Bounds of the model.                                                    *)
(***************************************************************************)
\* number of writes (field writes and whole-state writes) in one behaviour
MaxWrites == 3
\* the same, in the behaviours that also call batch(fn)
MaxBatchWrites == 2
\* nesting depth of batch(fn) calls
MaxDepth == 1
\* number of assignments the caller makes to the objects it passed in
MaxMutations == 1
\* number of writes in the behaviours that push to an array (a push makes two)
MaxArrayWrites == 4

(***************************************************************************)
(* Values and the heap.                                                    *)
(* A cell is what a property holds: a number, or a reference to an object  *)
(* of the heap.  An object is its fields and whether it is frozen.         *)
(***************************************************************************)
Num(n) == [ref |-> FALSE, v |-> n]
Ref(i) == [ref |-> TRUE, v |-> i]

NoFields == [k \in {} |-> Num(0)]

NewObject(f) == [f |-> f, frozen |-> FALSE]

\* A slot of the heap whose object is unreachable (collected), and the
\* allocation of a new object: in the first such slot, else at the end.
Collected == [f |-> NoFields, frozen |-> TRUE]
Alloc(h, o) ==
    LET free == {i \in DOMAIN h : h[i] = Collected}
    IN IF free = {} THEN [h |-> Append(h, o), id |-> Len(h) + 1]
       ELSE LET i == CHOOSE x \in free : \A y \in free : x <= y
            IN [h |-> [h EXCEPT ![i] = o], id |-> i]

\* order in which the keys of an object are visited
KeyOrder == <<"set", "a", "u", "n", "p", "items", "0", "1", "2", "3", "length">>

\* An array is an object with a length; the key of index i is IndexKey[i + 1].
IndexKey == <<"0", "1", "2", "3">>
IsArray(f) == "length" \in DOMAIN f
IndexOf(key) == CHOOSE i \in 0..(Len(IndexKey) - 1) : IndexKey[i + 1] = key

\* target[key] = value on the fields f of an object.  On an array, an index
\* at or past the length extends the length, and a smaller length drops the
\* elements from it on.
Assign(f, key, value) ==
    IF IsArray(f) /\ key = "length"
    THEN [k \in {x \in DOMAIN f : x = "length" \/ IndexOf(x) < value.v} |->
             IF k = "length" THEN value ELSE f[k]]
    ELSE IF IsArray(f) /\ IndexOf(key) >= f["length"].v
    THEN (key :> value) @@ ("length" :> Num(IndexOf(key) + 1)) @@ f
    ELSE (key :> value) @@ f

\* The objects reachable from object id (id included).
RECURSIVE ReachFrom(_, _)
ReachFrom(h, id) ==
    {id} \cup UNION { ReachFrom(h, h[id].f[k].v) :
                        k \in {x \in DOMAIN h[id].f : h[id].f[x].ref} }

\* The structure below object id, references resolved: what toEqual compares.
RECURSIVE View(_, _)
View(h, id) ==
    [k \in DOMAIN h[id].f |->
        IF h[id].f[k].ref THEN [obj |-> TRUE, n |-> 0, sub |-> View(h, h[id].f[k].v)]
                          ELSE [obj |-> FALSE, n |-> h[id].f[k].v, sub |-> NoFields]]

\* target = target[path[i]] for every segment: the object reached from id,
\* or 0 when a segment is missing or does not hold an object.
RECURSIVE Walk(_, _, _)
Walk(h, id, path) ==
    IF path = <<>> THEN id
    ELSE IF path[1] \in DOMAIN h[id].f /\ h[id].f[path[1]].ref
         THEN Walk(h, h[id].f[path[1]].v, Tail(path))
         ELSE 0

Front(s) == SubSeq(s, 1, Len(s) - 1)
Last(s) == s[Len(s)]

\* The cell at a path below object id; Num(0 - 1) stands for undefined.
Undefined == Num(0 - 1)
CellAt(h, id, path) ==
    IF path = <<>> THEN Ref(id)
    ELSE LET t == Walk(h, id, Front(path))
         IN IF t # 0 /\ Last(path) \in DOMAIN h[t].f THEN h[t].f[Last(path)]
            ELSE Undefined

(***************************************************************************)
(* structuredClone: a deep copy made of fresh, unfrozen objects.  It       *)
(* throws on a value that is, or holds, a function; Num(0 - 2) stands for  *)
(* a function.                                                             *)
(***************************************************************************)
Function == Num(0 - 2)

RECURSIVE Clonable(_, _)
Clonable(h, c) ==
    IF ~c.ref THEN c # Function
    ELSE \A k \in DOMAIN h[c.v].f : Clonable(h, h[c.v].f[k])

RECURSIVE CloneObject(_, _, _, _)
CloneObject(h, f, i, acc) ==
    IF i > Len(KeyOrder) THEN Alloc(h, NewObject(acc))
    ELSE LET k == KeyOrder[i]
         IN IF k \notin DOMAIN f THEN CloneObject(h, f, i + 1, acc)
            ELSE IF ~f[k].ref THEN CloneObject(h, f, i + 1, (k :> f[k]) @@ acc)
            ELSE LET r == CloneObject(h, h[f[k].v].f, 1, NoFields)
                 IN CloneObject(r.h, f, i + 1, (k :> Ref(r.id)) @@ acc)

structuredClone(h, c) ==
    IF ~c.ref THEN [h |-> h, c |-> c]
    ELSE LET r == CloneObject(h, h[c.v].f, 1, NoFields)
         IN [h |-> r.h, c |-> Ref(r.id)]

(***************************************************************************)
(* Immer's produce(base, recipe).  The recipe is the patch loop of the     *)
(* change callback and of processBatch: walk the path, assign the last     *)
(* key.  A draft copies an object of the base the first time it is         *)
(* changed; an object assigned during the recipe is never drafted and is   *)
(* written in place; assigning the value a key already holds changes       *)
(* nothing.  A finished produce freezes the whole result.                  *)
(***************************************************************************)
RECURSIVE CopyOnWrite(_, _, _, _, _)
CopyOnWrite(h, fresh, id, path, value) ==
    LET own == id \in fresh
        cp  == IF own THEN [h |-> h, id |-> id] ELSE Alloc(h, NewObject(h[id].f))
        h1  == cp.h
        cid == cp.id
        fr1 == fresh \cup {cid}
    IN IF Len(path) = 1
       THEN [h |-> [h1 EXCEPT ![cid].f = Assign(@, path[1], value)],
             id |-> cid,
             fresh |-> fr1 \cup (IF value.ref THEN ReachFrom(h, value.v) ELSE {})]
       ELSE LET r == CopyOnWrite(h1, fr1, h1[cid].f[path[1]].v, Tail(path), value)
            IN [h |-> [r.h EXCEPT ![cid].f = (path[1] :> Ref(r.id)) @@ @],
                id |-> cid,
                fresh |-> r.fresh]

\* (a variant that skips a record whose path does not resolve)
PatchDraftSkipsMissing(d, path, value) ==
    IF ~d.ok THEN d
    ELSE LET t == Walk(d.h, d.root, Front(path))
         IN IF t = 0 THEN d
            ELSE IF Last(path) \in DOMAIN d.h[t].f /\ d.h[t].f[Last(path)] = value
                 THEN d
                 ELSE LET r == CopyOnWrite(d.h, d.fresh, d.root, path, value)
                      IN [d EXCEPT !.h = r.h, !.root = r.id, !.fresh = r.fresh]

\* for (i < path.length - 1) target = target[path[i]];  target[last] = value
PatchDraft(d, path, value) ==
    IF ~d.ok THEN d
    ELSE LET t == Walk(d.h, d.root, Front(path))
         IN IF t = 0 THEN [d EXCEPT !.ok = FALSE]
            ELSE IF Last(path) \in DOMAIN d.h[t].f /\ d.h[t].f[Last(path)] = value
                 THEN d
                 ELSE LET r == CopyOnWrite(d.h, d.fresh, d.root, path, value)
                      IN [d EXCEPT !.h = r.h, !.root = r.id, !.fresh = r.fresh]

RECURSIVE PatchAll(_, _, _)
PatchAll(d, updates, i) ==
    IF i > Len(updates) THEN d
    ELSE PatchAll(PatchDraft(d, updates[i].path, updates[i].value), updates, i + 1)

Freeze(h, root) ==
    LET R == ReachFrom(h, root)
    IN [i \in DOMAIN h |-> IF i \in R THEN [h[i] EXCEPT !.frozen = TRUE] ELSE h[i]]

\* (a variant that patches the base in place)
produceInPlace(h, base, updates) ==
    LET d == PatchAll([h |-> h, root |-> base, fresh |-> ReachFrom(h, base),
                       ok |-> TRUE], updates, 1)
    IN IF d.ok THEN [ok |-> TRUE, h |-> Freeze(d.h, d.root), root |-> d.root]
       ELSE [ok |-> FALSE, h |-> d.h, root |-> base]

\* (a variant that patches a deep copy of the base)
produceOnDeepCopy(h, base, updates) ==
    LET c == structuredClone(h, Ref(base))
        d == PatchAll([h |-> c.h, root |-> c.c.v, fresh |-> ReachFrom(c.h, c.c.v),
                       ok |-> TRUE], updates, 1)
    IN IF d.ok THEN [ok |-> TRUE, h |-> Freeze(d.h, d.root), root |-> d.root]
       ELSE [ok |-> FALSE, h |-> d.h, root |-> base]

produce(h, base, updates) ==
    LET d == PatchAll([h |-> h, root |-> base, fresh |-> {}, ok |-> TRUE], updates, 1)
    IN IF d.ok THEN [ok |-> TRUE, h |-> Freeze(d.h, d.root), root |-> d.root]
       ELSE [ok |-> FALSE, h |-> d.h, root |-> base]

(***************************************************************************)
(* The hook's operations, as functions of the container                    *)
(*   e = [heap, state, batchQueue, batchUpdate, applied, error, setStates, *)
(*        proxyCache, wrappers, got]                                       *)
(* where applied is the log of the records that took effect on the state   *)
(* (by the number of the write that made them), error is what the          *)
(* operation raised, setStates counts its calls of setState and got is the *)
(* proxy its last get trap returned.                                       *)
(***************************************************************************)
\* A proxy made by createObservableObject: the object it wraps, the path it
\* reports, the cache it was made in and its number among the proxies of
\* that object.
NoWrapper == [target |-> 0, path |-> <<>>, born |-> 0, serial |-> 0]
NoneGot == [w |-> NoWrapper, cached |-> FALSE]

\* proxyCacheRef.current: a WeakMap (gen tells one WeakMap from another) from
\* objects to their proxies, held as the set of those proxies.
NewCache(c) == [gen |-> c.gen + 1, map |-> {}]
Cached(c, obj) == {w \in c.map : w.target = obj}

\* (a variant that never looks in the cache)
createObservableObjectAnew(e, obj, path) ==
    LET w == [target |-> obj, path |-> path, born |-> e.proxyCache.gen,
              serial |-> 1 + Cardinality({x \in e.wrappers : x.target = obj})]
    IN [e EXCEPT !.proxyCache.map = {x \in @ : x.target # obj} \cup {w},
                 !.wrappers = @ \cup {w},
                 !.got = [w |-> w, cached |-> FALSE]]

createObservableObject(e, obj, path) ==
    IF Cached(e.proxyCache, obj) # {}
    THEN [e EXCEPT !.got = [w |-> CHOOSE w \in Cached(e.proxyCache, obj) : TRUE,
                            cached |-> TRUE]]
    ELSE LET w == [target |-> obj, path |-> path, born |-> e.proxyCache.gen,
                   serial |-> 1 + Cardinality({x \in e.wrappers : x.target = obj})]
         IN [e EXCEPT !.proxyCache.map = @ \cup {w},
                      !.wrappers = @ \cup {w},
                      !.got = [w |-> w, cached |-> FALSE]]

\* the get trap of proxy w, for every key of keys in turn: proxy.k1.k2...
RECURSIVE getTrap(_, _, _)
getTrap(e, w, keys) ==
    IF keys = <<>> THEN e
    ELSE LET value == IF keys[1] \in DOMAIN e.heap[w.target].f
                      THEN e.heap[w.target].f[keys[1]] ELSE Undefined
         IN IF value.ref
            THEN LET e1 == createObservableObject(e, value.v, Append(w.path, keys[1]))
                 IN getTrap(e1, e1.got.w, Tail(keys))
            ELSE [e EXCEPT !.got = NoneGot]

Rids(q) == [i \in 1..Len(q) |-> [rid |-> q[i].rid, path |-> q[i].path]]

\* setState(value)
setStateValue(e, value, rid) ==
    [e EXCEPT !.state = value.v, !.setStates = @ + 1,
              !.applied = Append(@, [rid |-> rid, path |-> <<>>])]

\* setState((prev) => produce(prev, (draft) => { ... }))
setStateProduce(e, updates) ==
    LET p == produce(e.heap, e.state, updates)
    IN IF p.ok
       THEN [e EXCEPT !.heap = p.h, !.state = p.root, !.setStates = @ + 1,
                      !.applied = @ \o Rids(updates)]
       ELSE [e EXCEPT !.heap = p.h, !.setStates = @ + 1,
                      !.error = "PatchPathFailure"]

\* proxyCacheRef.current = new WeakMap(); setState(value)
replaceRoot(e, value, rid) ==
    setStateValue([e EXCEPT !.proxyCache = NewCache(@)], value, rid)

\* (a variant that keeps the proxy cache at a whole-state write)
callbackKeepsCache(e, path, value, rid) ==
    LET realPath == IF path[1] = "set" THEN Tail(path) ELSE path
    IN IF Len(realPath) = 0 THEN setStateValue(e, value, rid)
       ELSE IF e.batchUpdate
            THEN [e EXCEPT !.batchQueue =
                      Append(@, [path |-> realPath, value |-> value, rid |-> rid])]
            ELSE setStateProduce(e, <<[path |-> realPath, value |-> value, rid |-> rid]>>)

\* (a variant that does not strip the leading "set" of the path)
callbackKeepsSet(e, path, value, rid) ==
    LET realPath == path
    IN IF Len(realPath) = 0 THEN replaceRoot(e, value, rid)
       ELSE IF e.batchUpdate
            THEN [e EXCEPT !.batchQueue =
                      Append(@, [path |-> realPath, value |-> value, rid |-> rid])]
            ELSE setStateProduce(e, <<[path |-> realPath, value |-> value, rid |-> rid]>>)

\* (a variant that applies a field write at once even while batching)
callbackNeverQueues(e, path, value, rid) ==
    LET realPath == IF path[1] = "set" THEN Tail(path) ELSE path
    IN IF Len(realPath) = 0 THEN replaceRoot(e, value, rid)
       ELSE setStateProduce(e, <<[path |-> realPath, value |-> value, rid |-> rid]>>)

\* (a variant that ignores a whole-state write made while batching)
callbackDefersRoot(e, path, value, rid) ==
    LET realPath == IF path[1] = "set" THEN Tail(path) ELSE path
    IN IF Len(realPath) = 0
       THEN IF e.batchUpdate THEN e ELSE replaceRoot(e, value, rid)
       ELSE IF e.batchUpdate
            THEN [e EXCEPT !.batchQueue =
                     Append(@, [path |-> realPath, value |-> value, rid |-> rid])]
            ELSE setStateProduce(e, <<[path |-> realPath, value |-> value, rid |-> rid]>>)

\* (a variant that also publishes the snapshot when it queues a record)
callbackPublishesQueued(e, path, value, rid) ==
    LET realPath == IF path[1] = "set" THEN Tail(path) ELSE path
    IN IF Len(realPath) = 0 THEN replaceRoot(e, value, rid)
       ELSE IF e.batchUpdate
            THEN [e EXCEPT !.batchQueue =
                               Append(@, [path |-> realPath, value |-> value, rid |-> rid]),
                           !.setStates = @ + 1]
            ELSE setStateProduce(e, <<[path |-> realPath, value |-> value, rid |-> rid]>>)

\* (a variant that puts a record at the front of the queue)
callbackPushesFront(e, path, value, rid) ==
    LET realPath == IF path[1] = "set" THEN Tail(path) ELSE path
    IN IF Len(realPath) = 0 THEN replaceRoot(e, value, rid)
       ELSE IF e.batchUpdate
            THEN [e EXCEPT !.batchQueue =
                     <<[path |-> realPath, value |-> value, rid |-> rid]>> \o @]
            ELSE setStateProduce(e, <<[path |-> realPath, value |-> value, rid |-> rid]>>)

\* the change callback given to createObservableObject
callback(e, path, value, rid) ==
    LET realPath == IF path[1] = "set" THEN Tail(path) ELSE path
    IN IF Len(realPath) = 0 THEN replaceRoot(e, value, rid)
       ELSE IF e.batchUpdate
            THEN [e EXCEPT !.batchQueue =
                      Append(@, [path |-> realPath, value |-> value, rid |-> rid])]
            ELSE setStateProduce(e, <<[path |-> realPath, value |-> value, rid |-> rid]>>)

\* the set trap of the proxy made by createObservableObject
\* (a variant that does not report a write of length)
setTrapSkipsLength(e, target, path, key, value, rid) ==
    IF ~Clonable(e.heap, value) THEN [e EXCEPT !.error = "CloneFailure"]
    ELSE LET c  == structuredClone(e.heap, value)
             h1 == [c.h EXCEPT ![target].f = Assign(@, key, c.c)]
         IN IF key = "length" THEN [e EXCEPT !.heap = h1]
            ELSE callback([e EXCEPT !.heap = h1], Append(path, key), value, rid)

\* (a variant that hands the clone to the callback)
setTrapPassesClone(e, target, path, key, value, rid) ==
    IF ~Clonable(e.heap, value) THEN [e EXCEPT !.error = "CloneFailure"]
    ELSE LET c  == structuredClone(e.heap, value)
             h1 == [c.h EXCEPT ![target].f = Assign(@, key, c.c)]
         IN callback([e EXCEPT !.heap = h1], Append(path, key), c.c, rid)

\* (a variant that reports the write and leaves the target as it is)
setTrapLeavesTarget(e, target, path, key, value, rid) ==
    IF ~Clonable(e.heap, value) THEN [e EXCEPT !.error = "CloneFailure"]
    ELSE LET c == structuredClone(e.heap, value)
         IN callback([e EXCEPT !.heap = c.h], Append(path, key), value, rid)

setTrap(e, target, path, key, value, rid) ==
    IF ~Clonable(e.heap, value) THEN [e EXCEPT !.error = "CloneFailure"]
    ELSE LET c  == structuredClone(e.heap, value)
             h1 == [c.h EXCEPT ![target].f = Assign(@, key, c.c)]
         IN callback([e EXCEPT !.heap = h1], Append(path, key), value, rid)

\* (a variant that runs the transaction even when nothing is queued)
processBatchAlways(e) == setStateProduce([e EXCEPT !.batchQueue = <<>>], e.batchQueue)

\* (a variant that applies the queued records last first)
processBatchReversed(e) ==
    IF Len(e.batchQueue) = 0 THEN e
    ELSE setStateProduce([e EXCEPT !.batchQueue = <<>>],
                         [i \in 1..Len(e.batchQueue) |->
                             e.batchQueue[Len(e.batchQueue) + 1 - i]])

\* (a variant that empties the queue once the records are applied)
processBatchClearsAfter(e) ==
    IF Len(e.batchQueue) = 0 THEN e
    ELSE LET e1 == setStateProduce(e, e.batchQueue)
         IN IF e1.error = "none" THEN [e1 EXCEPT !.batchQueue = <<>>] ELSE e1

processBatch(e) ==
    IF Len(e.batchQueue) = 0 THEN e
    ELSE setStateProduce([e EXCEPT !.batchQueue = <<>>], e.batchQueue)

\* proxy.enableBatch(flag): the setBatchUpdate property of the proxy
\* (a variant that flushes at every call)
setBatchUpdateFlushes(e, flag) == processBatch([e EXCEPT !.batchUpdate = flag])

\* (a variant that does not flush when batching is switched off)
setBatchUpdateNoFlush(e, flag) ==
    IF e.batchUpdate # flag THEN [e EXCEPT !.batchUpdate = flag] ELSE e

setBatchUpdate(e, flag) ==
    IF e.batchUpdate # flag
    THEN LET e1 == [e EXCEPT !.batchUpdate = flag]
         IN IF ~flag THEN processBatch(e1) ELSE e1
    ELSE e

(***************************************************************************)
(* proxy.batch(fn): save the mode and the queue, run fn batching with an   *)
(* empty queue; on return flush and restore, on a throw restore only.      *)
(***************************************************************************)
\* (a variant that leaves the queued records in the queue)
batchEnterKeepsQueue(e) == [e EXCEPT !.batchUpdate = TRUE]

batchEnter(e) == [e EXCEPT !.batchUpdate = TRUE, !.batchQueue = <<>>]

batchRestore(e, frame) ==
    [e EXCEPT !.batchUpdate = frame.batchUpdate, !.batchQueue = frame.batchQueue]

batchReturn(e, frame) == batchRestore(processBatch(e), frame)

\* (a variant that keeps the records of the callback queued)
batchThrowKeepsQueue(e, frame) ==
    [e EXCEPT !.batchUpdate = frame.batchUpdate,
              !.batchQueue = frame.batchQueue \o @,
              !.error = "UserCallbackFailure"]

batchThrow(e, frame) ==
    [batchRestore(e, frame) EXCEPT !.error = "UserCallbackFailure"]

(***************************************************************************)
(* The state machine.                                                      *)
(*   heap        the objects                                               *)
(*   state       the React state: the published snapshot (an object)       *)
(*   proxyRoot   the shadow root {set: ...} that proxyRef wraps            *)
(*   proxyCache  proxyCacheRef.current                                     *)
(*   wrappers    the proxies made so far of objects that still exist       *)
(*   kept        the proxy of a child that the caller got by a read and    *)
(*               holds in a variable of its own (const u = proxy.set.u)    *)
(*   batchQueue  batchQueueRef.current                                     *)
(*   batchUpdate batchUpdateRef.current                                    *)
(*   saved       the (mode, queue) saved by the batch(fn) calls in         *)
(*               progress, innermost first, each with the number of writes *)
(*               made and the snapshot's structure when the call began     *)
(*   orig        the object the caller last passed in, which it still      *)
(*               holds, and whether it passed it to the hook or in a write *)
(*   writes      number of writes made; a write's record carries it as rid *)
(*   mutations   number of assignments the caller made to its own objects  *)
(*   applied     the records applied to the state (rid and path), in order *)
(*   discarded   the rids of the records dropped by a batch(fn) that threw *)
(*   last        the last operation, what it raised, its setState calls    *)
(*               and the number of records it applied to the state, and    *)
(*               the proxy it got by its last get trap                     *)
(***************************************************************************)
Container ==
    [heap |-> heap, state |-> state, batchQueue |-> batchQueue,
     batchUpdate |-> batchUpdate, applied |-> applied,
     error |-> "none", setStates |-> 0,
     proxyCache |-> proxyCache, wrappers |-> wrappers, got |-> NoneGot]

\* proxyRef.current: the proxy of the shadow root
RootWrapper == [target |-> proxyRoot, path |-> <<>>, born |-> 0, serial |-> 1]

\* The proxies of ws whose object still exists in heap h.
Existing(ws, h) == {w \in ws : w.target \in DOMAIN h /\ h[w.target] # Collected}

\* Objects no reference leads to are collected; their slots are reused.
RECURSIVE Trim(_)
Trim(h) == IF h # <<>> /\ h[Len(h)] = Collected THEN Trim(Front(h)) ELSE h

QueueRefs(q) == {q[i].value.v : i \in {j \in 1..Len(q) : q[j].value.ref}}

Collect(h, roots) ==
    LET live == UNION {ReachFrom(h, r) : r \in roots}
    IN Trim([i \in DOMAIN h |-> IF i \in live THEN h[i] ELSE Collected])

\* A proxy holds its target: the object of a proxy the caller holds is kept.
CommitKeeping(e, op, path, value, rid, newSaved, newOrig, newKept) ==
    /\ heap' = Collect(e.heap,
                       {e.state, proxyRoot, newOrig.id} \cup QueueRefs(e.batchQueue)
                       \cup UNION {QueueRefs(newSaved[i].batchQueue) :
                                      i \in 1..Len(newSaved)}
                       \cup (IF newKept = NoWrapper THEN {} ELSE {newKept.target}))
    /\ kept' = newKept
    /\ state' = e.state
    /\ proxyCache' = [e.proxyCache EXCEPT !.map = Existing(@, heap')]
    /\ wrappers' = Existing(e.wrappers, heap')
    /\ batchQueue' = e.batchQueue
    /\ batchUpdate' = e.batchUpdate
    /\ applied' = e.applied
    /\ saved' = newSaved
    /\ orig' = newOrig
    /\ last' = [op |-> op, path |-> path, value |-> value, rid |-> rid,
                error |-> e.error, setStates |-> e.setStates,
                count |-> Len(e.applied) - Len(applied), got |-> e.got]

Commit(e, op, path, value, rid, newSaved, newOrig) ==
    CommitKeeping(e, op, path, value, rid, newSaved, newOrig, kept)

\* useImmerObservable(obj, batchUpdate) with obj = {a: 0, u: {n: 0}}
InitialHeap == <<NewObject([n |-> Num(0)]), NewObject([a |-> Num(0), u |-> Ref(1)])>>
InitialObj == Ref(2)

Init ==
    LET c == structuredClone(InitialHeap, InitialObj)
        r == Alloc(c.h, NewObject([set |-> c.c]))
    IN /\ heap = r.h
       /\ proxyRoot = r.id
       /\ proxyCache = [gen |-> 0, map |-> {[target |-> r.id, path |-> <<>>,
                                            born |-> 0, serial |-> 1]}]
       /\ wrappers = proxyCache.map
       /\ kept = NoWrapper
       /\ state = InitialObj.v
       /\ batchQueue = <<>>
       /\ batchUpdate \in BOOLEAN
       /\ saved = <<>>
       /\ orig = [id |-> InitialObj.v, from |-> "init"]
       /\ writes = 0
       /\ mutations = 0
       /\ applied = <<>>
       /\ discarded = {}
       /\ last = [op |-> "init", path |-> <<>>, value |-> Num(0), rid |-> 0,
                  error |-> "none", setStates |-> 0, count |-> 0,
                  got |-> NoneGot]

\* useImmerObservable(obj, batchUpdate) with obj = {a: 0, u: {n: 0}, items: []}
InitialArrayHeap ==
    <<NewObject([n |-> Num(0)]), NewObject([length |-> Num(0)]),
      NewObject([a |-> Num(0), u |-> Ref(1), items |-> Ref(2)])>>
InitialArrayObj == Ref(3)

InitArray ==
    LET c == structuredClone(InitialArrayHeap, InitialArrayObj)
        r == Alloc(c.h, NewObject([set |-> c.c]))
    IN /\ heap = r.h
       /\ proxyRoot = r.id
       /\ proxyCache = [gen |-> 0, map |-> {[target |-> r.id, path |-> <<>>,
                                            born |-> 0, serial |-> 1]}]
       /\ wrappers = proxyCache.map
       /\ kept = NoWrapper
       /\ state = InitialArrayObj.v
       /\ batchQueue = <<>>
       /\ batchUpdate \in BOOLEAN
       /\ saved = <<>>
       /\ orig = [id |-> InitialArrayObj.v, from |-> "init"]
       /\ writes = 0
       /\ mutations = 0
       /\ applied = <<>>
       /\ discarded = {}
       /\ last = [op |-> "init", path |-> <<>>, value |-> Num(0), rid |-> 0,
                  error |-> "none", setStates |-> 0, count |-> 0,
                  got |-> NoneGot]

\* The paths a caller can write through proxy: set, set.a, set.u, set.u.n
Paths == { <<"set">>, <<"set", "a">>, <<"set", "u">>, <<"set", "u", "n">> }

\* The value the caller builds for a write at path: a number for a and u.n,
\* {n: v} for u, and {a: v, u: {n: v}} or {a: v} for the whole state.
\* The number v is the number of the write, so that the values of different
\* writes differ, or the number the property holds already (proxy.set.a =
\* proxy.set.a).
CallerValue(h, path, v, withU) ==
    IF path = <<"set">>
    THEN IF withU
         THEN LET u == Alloc(h, NewObject([n |-> Num(v)]))
                  r == Alloc(u.h, NewObject([a |-> Num(v), u |-> Ref(u.id)]))
              IN [h |-> r.h, c |-> Ref(r.id)]
         ELSE LET r == Alloc(h, NewObject([a |-> Num(v)]))
              IN [h |-> r.h, c |-> Ref(r.id)]
    ELSE IF path = <<"set", "u">>
    THEN LET r == Alloc(h, NewObject([n |-> Num(v)]))
         IN [h |-> r.h, c |-> Ref(r.id)]
    ELSE [h |-> h, c |-> Num(v)]

\* proxy.set = value,  proxy.set.a = value,  proxy.set.u = value,  proxy.set.u.n = value
WriteWithin(max, path, same, withU) ==
    LET target == Walk(heap, proxyRoot, Front(path))
        held == CellAt(heap, proxyRoot, path)
        v == IF same THEN held.v ELSE writes + 1
        nv == CallerValue(heap, path, v, withU)
        e1 == getTrap([Container EXCEPT !.heap = nv.h], RootWrapper, Front(path))
        w == IF Front(path) = <<>> THEN RootWrapper ELSE e1.got.w
    IN /\ writes < max
       /\ target # 0
       /\ same => ~held.ref /\ held # Undefined
       /\ Commit(setTrap(e1, w.target, w.path, Last(path), nv.c, writes + 1),
                 "write", path, nv.c, writes + 1,
                 saved, IF nv.c.ref THEN [id |-> nv.c.v, from |-> "write"] ELSE orig)
       /\ writes' = writes + 1
       /\ UNCHANGED <<proxyRoot, mutations, discarded>>

Write(path, same, withU) == WriteWithin(MaxWrites, path, same, withU)

\* the same with a value that cannot be cloned: a function, or an object
\* that holds one
WriteUnclonable(path) ==
    LET target == Walk(heap, proxyRoot, Front(path))
        nv == CallerValue(heap, path, Function.v, FALSE)
        e1 == getTrap([Container EXCEPT !.heap = nv.h], RootWrapper, Front(path))
        w == IF Front(path) = <<>> THEN RootWrapper ELSE e1.got.w
    IN /\ target # 0
       /\ Commit(setTrap(e1, w.target, w.path, Last(path), nv.c, writes + 1),
                 "write", path, Function, writes + 1, saved, orig)
       /\ UNCHANGED <<proxyRoot, writes, mutations, discarded>>

\* proxy.set.u = {n: value, p: state.u}: the value holds, by reference, a
\* subtree of the snapshot the caller has
WriteShared ==
    LET target == Walk(heap, proxyRoot, <<"set">>)
        prev == CellAt(heap, state, <<"u">>)
        nv == Alloc(heap, NewObject([n |-> Num(writes + 1), p |-> prev]))
        e1 == getTrap([Container EXCEPT !.heap = nv.h], RootWrapper, <<"set">>)
        w == e1.got.w
    IN /\ writes < MaxWrites
       /\ target # 0
       /\ prev.ref
       /\ Commit(setTrap(e1, w.target, w.path, "u", Ref(nv.id), writes + 1),
                 "write", <<"set", "u">>, Ref(nv.id), writes + 1,
                 saved, [id |-> nv.id, from |-> "write"])
       /\ writes' = writes + 1
       /\ UNCHANGED <<proxyRoot, mutations, discarded>>

\* proxy.set.items.push(x): Array.prototype.push, called on the proxy of the
\* shadow array, sets the element at index length and then the length
Push ==
    LET target == Walk(heap, proxyRoot, <<"set", "items">>)
        len == heap[target].f["length"].v
        e0 == getTrap(Container, RootWrapper, <<"set", "items">>)
        w == e0.got.w
        e1 == setTrap(e0, w.target, w.path, IndexKey[len + 1], Num(writes + 1),
                      writes + 1)
        e2 == setTrap(e1, w.target, w.path, "length", Num(len + 1), writes + 2)
    IN /\ writes + 2 <= MaxArrayWrites
       /\ target # 0
       /\ Commit(e2, "push", <<"set", "items", IndexKey[len + 1]>>, Num(writes + 1),
                 writes + 1, saved, orig)
       /\ writes' = writes + 2
       /\ UNCHANGED <<proxyRoot, mutations, discarded>>

\* proxy.set, proxy.set.u: a read of an object through the proxy
Read(path) ==
    /\ Walk(heap, proxyRoot, path) # 0
    /\ Commit(getTrap(Container, RootWrapper, path), "read", path, Num(0), 0,
              saved, orig)
    /\ UNCHANGED <<proxyRoot, writes, mutations, discarded>>

\* const u = proxy.set.u (or const s = proxy.set): a read whose proxy the
\* caller keeps
Keep(path) ==
    LET e == getTrap(Container, RootWrapper, path)
    IN /\ Walk(heap, proxyRoot, path) # 0
       /\ CommitKeeping(e, "read", path, Num(0), 0, saved, orig, e.got.w)
       /\ UNCHANGED <<proxyRoot, writes, mutations, discarded>>

\* u.n = value (or s.a = value, s.u = value): a write through the proxy the
\* caller kept, whatever was written since it got it
WriteKept(key) ==
    LET path == Append(kept.path, key)
        nv == CallerValue(heap, path, writes + 1, TRUE)
    IN /\ writes < MaxWrites
       /\ kept # NoWrapper
       /\ key \in (IF kept.path = <<"set">> THEN {"a", "u"} ELSE {"n"})
       /\ Commit(setTrap([Container EXCEPT !.heap = nv.h,
                                           !.got = [w |-> kept, cached |-> TRUE]],
                         kept.target, kept.path, key, nv.c, writes + 1),
                 "write", path, nv.c, writes + 1,
                 saved, IF nv.c.ref THEN [id |-> nv.c.v, from |-> "write"] ELSE orig)
       /\ writes' = writes + 1
       /\ UNCHANGED <<proxyRoot, mutations, discarded>>

\* proxy.update()
Update ==
    /\ Commit(processBatch(Container), "update", <<>>, Num(0), 0, saved, orig)
    /\ UNCHANGED <<proxyRoot, writes, mutations, discarded>>

\* proxy.enableBatch(flag)
EnableBatch(flag) ==
    /\ Commit(setBatchUpdate(Container, flag), "enableBatch", <<>>,
              Num(IF flag THEN 1 ELSE 0), 0, saved, orig)
    /\ UNCHANGED <<proxyRoot, writes, mutations, discarded>>

\* proxy.batch(fn): entry, up to the call of fn
BatchBegin ==
    /\ Len(saved) < MaxDepth
    /\ Commit(batchEnter(Container), "batchBegin", <<>>, Num(0), 0,
              <<[batchUpdate |-> batchUpdate, batchQueue |-> batchQueue,
                 mark |-> writes, view |-> View(heap, state)]>> \o saved, orig)
    /\ UNCHANGED <<proxyRoot, writes, mutations, discarded>>

\* proxy.batch(fn): fn returned
BatchReturn ==
    /\ saved # <<>>
    /\ Commit(batchReturn(Container, Head(saved)), "batchReturn", <<>>, Num(0), 0,
              Tail(saved), orig)
    /\ UNCHANGED <<proxyRoot, writes, mutations, discarded>>

\* proxy.batch(fn): fn threw
BatchThrow ==
    /\ saved # <<>>
    /\ Commit(batchThrow(Container, Head(saved)), "batchThrow", <<>>, Num(0), 0,
              Tail(saved), orig)
    /\ discarded' = discarded \cup {batchQueue[i].rid : i \in 1..Len(batchQueue)}
    /\ UNCHANGED <<proxyRoot, writes, mutations>>

\* The caller assigns to a numeric property of the object it passed in (or
\* of an object below it); a frozen object cannot be assigned to.
Mutated == MaxWrites + 1
CallerMutate(id, key) ==
    /\ mutations < MaxMutations
    /\ id \in ReachFrom(heap, orig.id)
    /\ ~heap[id].frozen
    /\ key \in DOMAIN heap[id].f
    /\ ~heap[id].f[key].ref
    /\ Commit([Container EXCEPT !.heap[id].f[key] = Num(Mutated)],
              "callerMutate", <<key>>, Ref(id), 0, saved, orig)
    /\ mutations' = mutations + 1
    /\ UNCHANGED <<proxyRoot, writes, discarded>>

(***************************************************************************)
(* Spec: the operations of src/src/useImmerObservable.ts.                  *)
(* SpecBatch: the same with batch(fn).                                     *)
(* SpecAlias: Spec with a caller that assigns to the objects it passed in. *)
(* SpecFail: Spec with writes of values that cannot be cloned.             *)
(* SpecShare: Spec with writes of values that hold a part of the snapshot. *)
(* SpecArray: a state with an array, and pushes to it.                     *)
(* SpecCache: Spec with reads of objects through the proxy.                *)
(* SpecKept: Spec with a caller that keeps a proxy it read and writes      *)
(* through it later.                                                       *)
(***************************************************************************)
Next ==
    \/ \E path \in Paths, same \in BOOLEAN, withU \in BOOLEAN :
          /\ withU \/ path = <<"set">>
          /\ Write(path, same, withU)
    \/ Update
    \/ \E flag \in BOOLEAN : EnableBatch(flag)

Spec == Init /\ [][Next]_vars

NextBatch ==
    \/ \E path \in Paths, same \in BOOLEAN, withU \in BOOLEAN :
          /\ withU \/ path = <<"set">>
          /\ WriteWithin(MaxBatchWrites, path, same, withU)
    \/ Update
    \/ \E flag \in BOOLEAN : EnableBatch(flag)
    \/ BatchBegin
    \/ BatchReturn
    \/ BatchThrow

SpecBatch == Init /\ [][NextBatch]_vars

NextAlias ==
    \/ Next
    \/ \E id \in DOMAIN heap, key \in {"a", "n"} : CallerMutate(id, key)

SpecAlias == Init /\ [][NextAlias]_vars

NextCache ==
    \/ Next
    \/ \E path \in {<<"set">>, <<"set", "u">>} : Read(path)

SpecCache == Init /\ [][NextCache]_vars

NextKept ==
    \/ Next
    \/ \E path \in {<<"set">>, <<"set", "u">>} : Keep(path)
    \/ \E key \in {"a", "u", "n"} : WriteKept(key)

SpecKept == Init /\ [][NextKept]_vars

NextArray ==
    \/ Push
    \/ \E same \in BOOLEAN : WriteWithin(MaxArrayWrites, <<"set", "u", "n">>, same, TRUE)
    \/ Update
    \/ \E flag \in BOOLEAN : EnableBatch(flag)

SpecArray == InitArray /\ [][NextArray]_vars

NextShare ==
    \/ Next
    \/ WriteShared

SpecShare == Init /\ [][NextShare]_vars

NextFail ==
    \/ Next
    \/ \E path \in Paths : WriteUnclonable(path)

SpecFail == Init /\ [][NextFail]_vars

(***************************************************************************)
(* What the properties below speak of.                                     *)
(***************************************************************************)
IsPrefix(p, q) == Len(p) <= Len(q) /\ SubSeq(q, 1, Len(p)) = p

\* Record i of queue q is overwritten by a later record of q: one for the
\* same path or for a path above it.
Superseded(q, i) == \E j \in (i + 1)..Len(q) : IsPrefix(q[j].path, q[i].path)

\* Object root holds, at the path of every record of q that no later record
\* of q overwrites, the value of that record.
Reflected(h, root, q) ==
    \A i \in 1..Len(q) : ~Superseded(q, i) => CellAt(h, root, q[i].path) = q[i].value

\* The step is a write through the proxy below the root (a field write),
\* or of the root (a whole-state write).
FieldWriteStep == last'.op = "write" /\ last'.path # <<"set">>
RootWriteStep == last'.op = "write" /\ last'.path = <<"set">>

\* The record a field write makes.
WrittenRecord == [path |-> Tail(last'.path), value |-> last'.value, rid |-> last'.rid]

\* The snapshot is the same object, with the same contents, after the step.
SnapshotUnchanged == state' = state /\ View(heap', state') = View(heap, state)

(***************************************************************************)
(* C1.  A batch(fn) whose callback throws leaves the published snapshot    *)
(* as it was before the call, whatever fn did before throwing, and the     *)
(* error is raised to the caller.                                          *)
(* Fails: a whole-state write, an update() or an enableBatch(false) made   *)
(* by fn has taken effect on the snapshot before the throw, and restoring  *)
(* the mode and the queue does not undo it.                                *)
(***************************************************************************)
C1_ThrowLeavesSnapshot ==
    [][last'.op = "batchThrow" =>
          /\ View(heap', state') = Head(saved).view
          /\ last'.error = "UserCallbackFailure"]_vars

(***************************************************************************)
(* C2.  While batching, a field write appends exactly one record, its own, *)
(* to the end of the queue, and leaves the published snapshot unchanged:   *)
(* nothing is applied and setState is not called.                          *)
(***************************************************************************)
C2_BatchedWriteIsQueued ==
    [][(FieldWriteStep /\ batchUpdate) =>
          /\ batchQueue' = Append(batchQueue, WrittenRecord)
          /\ SnapshotUnchanged
          /\ applied' = applied
          /\ batchUpdate'
          /\ last'.setStates = 0
          /\ last'.error = "none"]_vars

\* two field writes are queued and the snapshot does not show the last one
C2_Witness ==
    /\ last.op = "write" /\ last.path = <<"set", "u", "n">>
    /\ batchUpdate
    /\ Len(batchQueue) = 2
    /\ batchQueue[2].value = last.value
    /\ CellAt(heap, state, <<"u", "n">>) # last.value

\* The step runs processBatch on a queue that is not empty: update(),
\* enableBatch(false) while batching, or the return of the callback of batch.
FlushStep ==
    /\ batchQueue # <<>>
    /\ \/ last'.op \in {"update", "batchReturn"}
       \/ last'.op = "enableBatch" /\ batchUpdate /\ last'.value = Num(0)

\* The queue a flush leaves: empty, or the one batch(fn) had saved.
QueueAfterFlush == IF last'.op = "batchReturn" THEN Head(saved).batchQueue ELSE <<>>

\* The path of every record of q but its last segment resolves in the snapshot.
Resolves(q) == \A i \in 1..Len(q) : Walk(heap, state, Front(q[i].path)) # 0

\* The step applied the queue: all of its records, in enqueue order, in one
\* transaction, and the snapshot shows them.
AppliedQueue ==
    /\ last'.error = "none"
    /\ last'.setStates = 1
    /\ applied' = applied \o Rids(batchQueue)
    /\ Reflected(heap', state', batchQueue)

\* The step applied nothing: the patch failed and the snapshot is as before.
AppliedNothing ==
    /\ last'.error = "PatchPathFailure"
    /\ applied' = applied
    /\ SnapshotUnchanged

(***************************************************************************)
(* C3 as stated.  A flush applies every queued record onto the snapshot in *)
(* enqueue order in one transaction and leaves the queue empty; the        *)
(* resulting snapshot shows every record, the last-enqueued one where      *)
(* several target the same path.                                           *)
(* Fails: when a record's path does not resolve in the snapshot (the root  *)
(* was replaced after the record was queued) the patch fails and no record *)
(* is applied.                                                             *)
(***************************************************************************)
C3_FlushAppliesAll ==
    [][FlushStep => (batchQueue' = QueueAfterFlush /\ AppliedQueue)]_vars

(***************************************************************************)
(* C3.  A flush leaves the queue empty and runs one transaction.  It       *)
(* either applies every queued record in enqueue order, so that the        *)
(* snapshot shows every record (the last-enqueued one where several target *)
(* the same path), or, when the patch fails on a path that does not        *)
(* resolve, applies none and leaves the snapshot unchanged.  It applies    *)
(* them all when every record's path resolves in the snapshot.             *)
(***************************************************************************)
C3_FlushAppliesAllOrNone ==
    [][FlushStep =>
          /\ batchQueue' = QueueAfterFlush
          /\ last'.setStates = 1
          /\ AppliedQueue \/ AppliedNothing
          /\ Resolves(batchQueue) => AppliedQueue]_vars

\* update() applied three queued records, two of them for the same path
C3_Witness ==
    /\ last.op = "update" /\ last.count = 3 /\ last.error = "none"
    /\ batchQueue = <<>>
    /\ applied[1].path = <<"a">> /\ applied[2].path = <<"a">>
    /\ applied[3].path = <<"u", "n">>
    /\ CellAt(heap, state, <<"a">>) = Num(2)
    /\ CellAt(heap, state, <<"u", "n">>) = Num(3)

\* The rid of the last whole-state write made, 0 when there was none (a
\* whole-state write is applied when it is made).
LastRootRid ==
    LET rs == {applied[i].rid : i \in {j \in 1..Len(applied) : applied[j].path = <<>>}}
    IN IF rs = {} THEN 0 ELSE CHOOSE r \in rs : \A x \in rs : x <= r

\* The records of the queue written after the last whole-state write.
AfterRoot(i) == LastRootRid > 0 /\ batchQueue[i].rid > LastRootRid

\* A whole-state write is not queued: it publishes its value at once, in one
\* setState call, and leaves the queue and the mode as they are.
RootWritePublishes ==
    RootWriteStep =>
        /\ batchQueue' = batchQueue
        /\ batchUpdate' = batchUpdate
        /\ state' = last'.value.v
        /\ applied' = Append(applied, [rid |-> last'.rid, path |-> <<>>])
        /\ last'.setStates = 1
        /\ last'.error = "none"

\* A field write made while batching after a whole-state write is queued and
\* the snapshot stays the replacement.
FieldWriteAfterRootQueued ==
    (FieldWriteStep /\ batchUpdate /\ LastRootRid > 0) =>
        /\ batchQueue' = Append(batchQueue, WrittenRecord)
        /\ SnapshotUnchanged
        /\ last'.setStates = 0

\* The snapshot shows the records written after the last whole-state write.
ReflectedAfterRoot ==
    \A i \in 1..Len(batchQueue) :
        (AfterRoot(i) /\ ~Superseded(batchQueue, i)) =>
            CellAt(heap', state', batchQueue[i].path) = batchQueue[i].value

(***************************************************************************)
(* C4 as stated.  A whole-state write, in either mode, is never queued: it *)
(* publishes its value at once and leaves the queue unchanged.  A field    *)
(* write made after it while batching stays queued, the snapshot still the *)
(* replacement, until the next flush, which applies it onto the replaced   *)
(* root.                                                                   *)
(* Fails: the flush applies nothing when a record queued before the        *)
(* replacement has a path that the replacement does not have.              *)
(***************************************************************************)
C4_RootWriteThenFlush ==
    [][/\ RootWritePublishes
       /\ FieldWriteAfterRootQueued
       /\ FlushStep => ReflectedAfterRoot]_vars

(***************************************************************************)
(* C4.  A whole-state write, in either mode, is never queued: it publishes *)
(* its value at once and leaves the queue unchanged.  A field write made   *)
(* after it while batching stays queued, the snapshot still the            *)
(* replacement, until the next flush.  That flush applies it onto the      *)
(* replaced root unless the patch fails on a queued record whose path does *)
(* not resolve in the replaced root; then nothing is applied and the       *)
(* snapshot stays the replacement.                                         *)
(***************************************************************************)
C4_RootWriteThenFlushUnlessFailure ==
    [][/\ RootWritePublishes
       /\ FieldWriteAfterRootQueued
       /\ FlushStep =>
             \/ last'.error = "none" /\ ReflectedAfterRoot
             \/ AppliedNothing /\ ~Resolves(batchQueue)]_vars

\* a flush applied, onto a replaced root, a field write made after the
\* replacement while batching
C4_Witness ==
    /\ last.op = "update" /\ last.count = 1 /\ last.error = "none"
    /\ Len(applied) = 2
    /\ applied[1] = [rid |-> 1, path |-> <<>>]
    /\ applied[2] = [rid |-> 2, path |-> <<"a">>]
    /\ CellAt(heap, state, <<"a">>) = Num(2)
    /\ batchUpdate

\* Rids grow along a queue.
Increasing(q) == \A i, j \in 1..Len(q) : i < j => q[i].rid < q[j].rid

(***************************************************************************)
(* C5 as stated.  Over any sequence of field writes, whole-state writes,   *)
(* batch(fn) calls, mode switches and flushes, records take effect on the  *)
(* snapshot in the exact order of the writes: no earlier write is applied  *)
(* after a later one.                                                      *)
(* Fails: a whole-state write and the flush that ends batch(fn) take       *)
(* effect at once, before the records still queued that were written       *)
(* earlier; these are applied at a later flush.                            *)
(***************************************************************************)
C5_AppliedInWriteOrder == Increasing(applied)

(***************************************************************************)
(* C5.  Records are queued in write order (in the queue and in every queue *)
(* saved by a batch(fn) in progress), and an operation applies nothing, or *)
(* one write as it is made, or the whole queue in queue order.  So records *)
(* take effect in write order except that a whole-state write, and the     *)
(* flush that ends batch(fn), overtake the records still queued.           *)
(***************************************************************************)
C5_AppliedInQueueOrder ==
    [][/\ Increasing(batchQueue')
       /\ \A i \in 1..Len(saved') : Increasing(saved'[i].batchQueue)
       /\ \/ applied' = applied
          \/ /\ last'.op = "write"
             /\ applied' = Append(applied, [rid |-> last'.rid, path |-> Tail(last'.path)])
          \/ /\ FlushStep
             /\ applied' = applied \o Rids(batchQueue)]_vars

\* a flush applied a queued record after a whole-state write, made after
\* the record was queued, had overtaken it
C5_Witness ==
    /\ last.op \in {"update", "enableBatch", "batchReturn"}
    /\ last.count = 1
    /\ Len(applied) = 2
    /\ applied[1] = [rid |-> 2, path |-> <<>>]
    /\ applied[2].rid = 1

\* What the records of a queue hold: a number, or the contents of an object.
QueueView(h, q) ==
    [i \in 1..Len(q) |-> IF q[i].value.ref THEN View(h, q[i].value.v) ELSE q[i].value]

(***************************************************************************)
(* C6.  A value assigned by a field write or a whole-state write is stored *)
(* as a deep clone: when the caller assigns to the object it passed to a   *)
(* write, after the write returned, neither the published snapshot nor the *)
(* value held in a queued record changes.                                  *)
(* Fails: the set trap clones the value into the shadow root only and      *)
(* hands the caller's object itself to the change callback, which makes    *)
(* it the snapshot (whole-state write) or queues it (field write).         *)
(***************************************************************************)
C6_WrittenValueIsCloned ==
    [][(last'.op = "callerMutate" /\ orig.from = "write") =>
          /\ SnapshotUnchanged
          /\ QueueView(heap', batchQueue') = QueueView(heap, batchQueue)]_vars

\* The step is enableBatch(false) made while batching.
BatchOffStep == last'.op = "enableBatch" /\ last'.value = Num(0) /\ batchUpdate

\* The step applied the field write it made, alone, in one transaction.
AppliedWrite ==
    /\ last'.error = "none"
    /\ last'.setStates = 1
    /\ applied' = Append(applied, [rid |-> last'.rid, path |-> Tail(last'.path)])
    /\ CellAt(heap', state', Tail(last'.path)) = last'.value

(***************************************************************************)
(* C7 as stated.  enableBatch(false) while batching flushes all pending    *)
(* records and then switches to Immediate; every field write made while    *)
(* Immediate is applied to the snapshot at once and is not queued.         *)
(* Fails: the flush applies nothing when a pending record's path does not  *)
(* resolve in the snapshot.                                                *)
(***************************************************************************)
C7_BatchOffFlushes ==
    [][/\ BatchOffStep =>
             /\ ~batchUpdate' /\ batchQueue' = <<>>
             /\ batchQueue # <<>> => AppliedQueue
       /\ (FieldWriteStep /\ ~batchUpdate) =>
             /\ ~batchUpdate' /\ batchQueue' = batchQueue
             /\ AppliedWrite]_vars

(***************************************************************************)
(* C7.  enableBatch(false) while batching empties the queue and switches   *)
(* to Immediate; it applies all pending records in one transaction, or     *)
(* none when the patch fails on a path that does not resolve, and nothing  *)
(* is published when none was pending.  A field write made while Immediate *)
(* is never queued: it is applied to the snapshot at once, or fails in the *)
(* same way and leaves the snapshot unchanged.                             *)
(***************************************************************************)
C7_BatchOffFlushesUnlessFailure ==
    [][/\ BatchOffStep =>
             /\ ~batchUpdate' /\ batchQueue' = <<>>
             /\ batchQueue # <<>> => (AppliedQueue \/ AppliedNothing)
             /\ (batchQueue # <<>> /\ Resolves(batchQueue)) => AppliedQueue
             /\ batchQueue = <<>> => (SnapshotUnchanged /\ last'.setStates = 0)
       /\ (FieldWriteStep /\ ~batchUpdate) =>
             /\ ~batchUpdate' /\ batchQueue' = batchQueue
             /\ last'.setStates = 1
             /\ AppliedWrite \/ AppliedNothing
             /\ Walk(heap, state, Front(Tail(last'.path))) # 0 => AppliedWrite]_vars

\* enableBatch(false) applied two pending records and left the mode Immediate
C7_Witness ==
    /\ last.op = "enableBatch" /\ last.value = Num(0)
    /\ last.count = 2 /\ last.error = "none"
    /\ ~batchUpdate /\ batchQueue = <<>>
    /\ Len(applied) = 2

\* The step ends a batch(fn): restored are the mode and the queue saved
\* when it began.
BatchEndStep == last'.op \in {"batchReturn", "batchThrow"}
Restored ==
    /\ batchUpdate' = Head(saved).batchUpdate
    /\ batchQueue' = Head(saved).batchQueue

\* batch(fn) begins batching with an empty queue, and every record in the
\* queue when fn returns was written during fn.
BatchRunsApart ==
    /\ last'.op = "batchBegin" =>
          (batchUpdate' /\ batchQueue' = <<>> /\ SnapshotUnchanged /\ applied' = applied)
    /\ BatchEndStep => Restored
    /\ last'.op = "batchReturn" =>
          /\ \A i \in 1..Len(batchQueue) : batchQueue[i].rid > Head(saved).mark
          /\ batchQueue = <<>> => (applied' = applied /\ SnapshotUnchanged)

(***************************************************************************)
(* C8 as stated.  batch(fn) runs fn batching with an empty queue; after    *)
(* the call, fn having returned or thrown, the mode and the queue are      *)
(* those from before the call.  When fn returns, the flush at the end      *)
(* applies exactly the records written during fn that are queued, and none *)
(* of those queued before the call, which stay queued.                     *)
(* Fails: the flush applies nothing when a record of fn has a path that    *)
(* does not resolve in the snapshot (fn replaced the root after writing    *)
(* below it).                                                              *)
(***************************************************************************)
C8_BatchAppliesOwnRecords ==
    [][/\ BatchRunsApart
       /\ (last'.op = "batchReturn" /\ batchQueue # <<>>) => AppliedQueue]_vars

(***************************************************************************)
(* C8.  batch(fn) runs fn batching with an empty queue; after the call, fn *)
(* having returned or thrown, the mode and the queue are those from before *)
(* the call.  When fn returns, the flush at the end applies the records    *)
(* written during fn that are queued, all of them in one transaction, or   *)
(* none of them when the patch fails on a path that does not resolve; it   *)
(* applies none of the records queued before the call, which stay queued.  *)
(***************************************************************************)
C8_BatchAppliesOwnRecordsOrNone ==
    [][/\ BatchRunsApart
       /\ (last'.op = "batchReturn" /\ batchQueue # <<>>) =>
             /\ AppliedQueue \/ AppliedNothing
             /\ Resolves(batchQueue) => AppliedQueue]_vars

\* a batch(fn) made while a record was queued has returned: its own record
\* is applied and the older one is queued again
C8_Witness ==
    /\ last.op = "batchReturn" /\ last.count = 1 /\ last.error = "none"
    /\ batchUpdate
    /\ Len(batchQueue) = 1 /\ batchQueue[1].rid = 1
    /\ Len(applied) = 1 /\ applied[1].rid = 2

\* What the snapshot holds at a path.
ViewAt(h, root, path) ==
    LET c == CellAt(h, root, path) IN IF c.ref THEN View(h, c.v) ELSE c

\* The paths of the snapshot that no record of q is at, above or below.
Untouched(q) ==
    {p \in {<<"a">>, <<"u">>, <<"u", "n">>} :
        \A i \in 1..Len(q) : ~IsPrefix(q[i].path, p) /\ ~IsPrefix(p, q[i].path)}

\* Every rid a queue saved by a batch(fn) in progress holds.
SavedRids == UNION {{saved[k].batchQueue[i].rid : i \in 1..Len(saved[k].batchQueue)} :
                       k \in 1..Len(saved)}

(***************************************************************************)
(* C9.  The records that were queued when the callback of a batch(fn)      *)
(* threw are discarded for good: none is ever applied to the snapshot or   *)
(* found in a queue afterwards, whatever operations follow, and a batch    *)
(* that returns leaves the snapshot as it was at every path it did not     *)
(* write.                                                                  *)
(***************************************************************************)
C9_DiscardedForGood ==
    [][/\ \A i \in 1..Len(applied') : applied'[i].rid \notin discarded'
       /\ \A i \in 1..Len(batchQueue') : batchQueue'[i].rid \notin discarded'
       /\ SavedRids' \cap discarded' = {}
       /\ last'.op = "batchReturn" =>
             \A p \in Untouched(batchQueue) :
                 ViewAt(heap', state', p) = ViewAt(heap, state, p)]_vars

\* after a batch(fn) threw with a record queued, a later batch(fn) returned
\* and applied its own record
C9_Witness ==
    /\ discarded = {1}
    /\ last.op = "batchReturn" /\ last.count = 1
    /\ Len(applied) = 1 /\ applied[1].rid = 2

(***************************************************************************)
(* C10.  update() while batching flushes: it empties the queue in one      *)
(* transaction and leaves the mode Batching, so that a field write made    *)
(* after it is queued again.  update() while Immediate, or with an empty   *)
(* queue, changes neither the snapshot, the queue nor the mode and calls   *)
(* setState not at all.                                                    *)
(***************************************************************************)
C10_UpdateFlushesKeepsMode ==
    [][/\ last'.op = "update" =>
             /\ batchUpdate' = batchUpdate
             /\ batchQueue' = <<>>
             /\ (batchUpdate /\ batchQueue # <<>>) =>
                   (last'.setStates = 1 /\ (AppliedQueue \/ AppliedNothing))
             /\ (~batchUpdate \/ batchQueue = <<>>) =>
                   /\ SnapshotUnchanged
                   /\ batchQueue' = batchQueue
                   /\ applied' = applied
                   /\ last'.setStates = 0
                   /\ last'.error = "none"
       /\ (last.op = "update" /\ batchUpdate /\ FieldWriteStep) =>
             /\ batchQueue' = <<WrittenRecord>>
             /\ SnapshotUnchanged]_vars

\* update() has applied two queued records and the mode is still Batching
C10_Witness ==
    /\ last.op = "update" /\ last.count = 2 /\ last.setStates = 1
    /\ batchUpdate /\ batchQueue = <<>>
    /\ Len(applied) = 2

\* The step is enableBatch(flag).
EnableBatchStep(flag) ==
    last'.op = "enableBatch" /\ last'.value = Num(IF flag THEN 1 ELSE 0)

\* The step changed neither the snapshot nor the queue and called setState
\* not at all.
NothingPublished ==
    /\ SnapshotUnchanged
    /\ batchQueue' = batchQueue
    /\ applied' = applied
    /\ last'.setStates = 0
    /\ last'.error = "none"

(***************************************************************************)
(* C11.  enableBatch(true) while Immediate changes the mode flag only: the *)
(* snapshot and the queue are unchanged and nothing is published.          *)
(* enableBatch called with the mode already in force changes nothing, the  *)
(* mode included, and flushes nothing.                                     *)
(***************************************************************************)
C11_EnableBatchOnlySetsMode ==
    [][/\ (EnableBatchStep(TRUE) /\ ~batchUpdate) => (batchUpdate' /\ NothingPublished)
       /\ \A flag \in BOOLEAN :
             (EnableBatchStep(flag) /\ batchUpdate = flag) =>
                 (batchUpdate' = batchUpdate /\ NothingPublished)]_vars

\* enableBatch(true) was called while batching with two records queued:
\* they are still queued
C11_Witness ==
    /\ last.op = "enableBatch" /\ last.value = Num(1)
    /\ batchUpdate
    /\ Len(batchQueue) = 2
    /\ applied = <<>>

\* Record i of the queue cannot be patched: a segment of its path before
\* the last is not an object, in the value of the latest earlier record
\* written above it, or in the snapshot when there is no such record.
Fails(i) ==
    LET f == Front(batchQueue[i].path)
        js == {j \in 1..(i - 1) : IsPrefix(batchQueue[j].path, f)}
    IN IF js = {} THEN Walk(heap, state, f) = 0
       ELSE LET j == CHOOSE x \in js : \A y \in js : y <= x
                w == batchQueue[j]
            IN \/ ~w.value.ref
               \/ Walk(heap, w.value.v, SubSeq(f, Len(w.path) + 1, Len(f))) = 0

\* The contents of the shadow root.
ShadowUnchanged == View(heap', proxyRoot') = View(heap, proxyRoot)

C13_OnePublicationPerTransaction ==
    [][/\ last'.setStates \in {0, 1}
       /\ last'.setStates = 1 <=>
             \/ RootWriteStep
             \/ FieldWriteStep /\ ~batchUpdate
             \/ FlushStep
       /\ (FlushStep /\ last'.error = "none") => last'.count = Len(batchQueue)]_vars

\* a batch(fn) whose callback made two field writes has returned: one call
\* of setState applied both
C13_Witness ==
    /\ last.op = "batchReturn"
    /\ last.count = 2 /\ last.setStates = 1
    /\ Len(applied) = 2
    /\ saved = <<>>

\* The step is a field write made while Immediate that was applied; the
\* location it wrote; the paths of the snapshot above that location, and
\* those neither above, at nor below it.
ImmediateWriteStep == FieldWriteStep /\ ~batchUpdate /\ last'.error = "none"
Written == Tail(last'.path)
Above(p) == {SubSeq(p, 1, k) : k \in 0..(Len(p) - 1)}
Beside(p) ==
    {q \in {<<"a">>, <<"u">>, <<"u", "n">>} : ~IsPrefix(q, p) /\ ~IsPrefix(p, q)}

\* What the snapshot holds at path q is the same reference (or the same
\* number), with the same contents, after the step.
SameReference(q) ==
    /\ CellAt(heap', state', q) = CellAt(heap, state, q)
    /\ ViewAt(heap', state', q) = ViewAt(heap, state, q)

\* The object of the snapshot at path q is another object after the step.
NewReference(q) == Walk(heap', state', q) # Walk(heap, state, q)

(***************************************************************************)
(* C14 as stated.  After a field write at path p is applied, every subtree *)
(* of the snapshot beside p is reference-equal to what it was, and the     *)
(* root and every object above the written location are new references.    *)
(* Fails: a write of the value the location holds already changes nothing; *)
(* the snapshot is the same root object as before.                         *)
(***************************************************************************)
C14_SharesBesideCopiesAbove ==
    [][ImmediateWriteStep =>
          /\ \A q \in Beside(Written) : SameReference(q)
          /\ \A q \in Above(Written) : NewReference(q)]_vars

(***************************************************************************)
(* C14.  After a field write at path p is applied, every subtree of the    *)
(* snapshot beside p is reference-equal to what it was.  If the value      *)
(* written differs from the value held at p, the root and every object     *)
(* above the written location are new references; if it is the value held  *)
(* already, the snapshot is the same root object with the same contents.   *)
(***************************************************************************)
C14_SharesBesideCopiesAboveIfChanged ==
    [][ImmediateWriteStep =>
          /\ \A q \in Beside(Written) : SameReference(q)
          /\ IF CellAt(heap, state, Written) = last'.value
             THEN SnapshotUnchanged
             ELSE /\ \A q \in Above(Written) : NewReference(q)
                  /\ CellAt(heap', state', Written) = last'.value]_vars

\* a field write of a new number to u.n was applied at once
C14_Witness ==
    /\ last.op = "write" /\ last.path = <<"set", "u", "n">>
    /\ ~batchUpdate /\ last.error = "none" /\ last.count = 1
    /\ last.value = Num(writes)
    /\ CellAt(heap, state, <<"u", "n">>) = Num(writes)

\* The objects that object o holds are the same objects, with the same
\* contents, after the step.
KeepsSubtrees(o) ==
    \A k \in DOMAIN heap[o].f :
        heap[o].f[k].ref =>
            /\ heap'[o].f[k] = heap[o].f[k]
            /\ View(heap', heap[o].f[k].v) = View(heap, heap[o].f[k].v)

(***************************************************************************)
(* C15.  When a field is assigned an object that holds, by reference, a    *)
(* subtree of the current snapshot (set.u = {n: v, p: prevU} with prevU    *)
(* the snapshot's u), the snapshot that results from applying the write,   *)
(* at once or at a flush, holds that very subtree at the corresponding     *)
(* place (next u.p is prevU, contents unchanged), the assigned field (u)   *)
(* is a new reference and the number written has the new value.            *)
(***************************************************************************)
C15_AssignedSubtreeIsShared ==
    [][/\ (ImmediateWriteStep /\ last'.value.ref) =>
             LET prevU == CellAt(heap, state, <<"u">>)
                 o == last'.value.v
             IN /\ CellAt(heap', state', Written) # CellAt(heap, state, Written)
                /\ CellAt(heap', state', Written \o <<"n">>) = Num(last'.rid)
                /\ "p" \in DOMAIN heap'[o].f =>
                      /\ CellAt(heap', state', Written \o <<"p">>) = prevU
                      /\ View(heap', prevU.v) = View(heap, prevU.v)
       /\ (FlushStep /\ last'.error = "none") =>
             \A i \in 1..Len(batchQueue) :
                 (batchQueue[i].value.ref /\ ~Superseded(batchQueue, i)) =>
                     /\ CellAt(heap', state', batchQueue[i].path) = batchQueue[i].value
                     /\ KeepsSubtrees(batchQueue[i].value.v)]_vars

\* u was assigned at once an object that holds the initial u: the snapshot
\* has it at u.p
C15_Witness ==
    /\ last.op = "write" /\ last.path = <<"set", "u">>
    /\ ~batchUpdate /\ last.error = "none"
    /\ writes = 1
    /\ CellAt(heap, state, <<"u", "p">>) = Ref(1)
    /\ CellAt(heap, state, <<"u", "n">>) = Num(1)

(***************************************************************************)
(* C16.  The initial snapshot is a deep clone of the initial value: when   *)
(* the caller assigns to the object it passed at construction (or to an    *)
(* object below it), the published snapshot does not change.               *)
(* Fails: useState(obj) makes the caller's object itself the snapshot;     *)
(* only the shadow root gets a clone.                                      *)
(***************************************************************************)
C16_InitialValueIsCloned ==
    [][(last'.op = "callerMutate" /\ orig.from = "init") => SnapshotUnchanged]_vars

\* The step is proxy.set.items.push(x); the length of the snapshot's array
\* before it; the two records the push makes, one for the element and one
\* for the length.
PushStep == last'.op = "push"
PushedAt == Last(last'.path)
PushRecords ==
    <<[path |-> <<"items", PushedAt>>, value |-> last'.value, rid |-> last'.rid],
      [path |-> <<"items", "length">>, value |-> Num(IndexOf(PushedAt) + 1),
       rid |-> last'.rid + 1]>>

\* The snapshot's array holds the pushed element, as its last.
HoldsPushed ==
    /\ CellAt(heap', state', <<"items", PushedAt>>) = last'.value
    /\ CellAt(heap', state', <<"items", "length">>) = Num(IndexOf(PushedAt) + 1)

ReadStep == last'.op = "read"
ObjectRead == Walk(heap, proxyRoot, last'.path)

\* The objects below the shadow root after the step.
ShadowObjects == ReachFrom(heap', proxyRoot')

(***************************************************************************)
(* C19.  At most one proxy exists of any object reachable from the shadow  *)
(* root.  A read of an object returns a proxy of that object, which is in  *)
(* the cache afterwards; it returns the proxy the cache holds for the      *)
(* object when there is one, and makes none.  A proxy is made only of an   *)
(* object the cache holds no proxy of, and the cache keeps the proxy of an *)
(* object for as long as the object is below the shadow root and the root  *)
(* is not replaced: so two reads of the same child, with no replacement    *)
(* in between, return the identical proxy.                                 *)
(***************************************************************************)
C19_OneWrapperPerObject ==
    [][/\ \A w1, w2 \in wrappers' :
             (w1.target = w2.target /\ w1.target \in ShadowObjects) => w1 = w2
       /\ \A w \in wrappers' \ wrappers : Cached(proxyCache, w.target) = {}
       /\ ~RootWriteStep =>
             \A w \in proxyCache.map : w.target \in ShadowObjects => w \in proxyCache'.map
       /\ ReadStep =>
             /\ last'.got.w.target = ObjectRead
             /\ last'.got.w \in proxyCache'.map
             /\ Cached(proxyCache, ObjectRead) # {} =>
                   /\ last'.got.w \in Cached(proxyCache, ObjectRead)
                   /\ last'.got.cached
                   /\ wrappers' = wrappers]_vars

\* a read of set.u returned the proxy that the cache held for that object
C19_Witness ==
    /\ last.op = "read" /\ last.path = <<"set", "u">>
    /\ last.got.cached
    /\ last.got.w \in proxyCache.map
    /\ Cardinality(wrappers) = 3

(***************************************************************************)
(* C20.  A whole-state write replaces the proxy cache by a new, empty one, *)
(* and every read of a path below the root returns a proxy of the object   *)
(* that the shadow root now holds at that path, made in the cache now in   *)
(* use: never a proxy made before the replacement.                         *)
(***************************************************************************)
C20_RootWriteResetsCache ==
    [][/\ RootWriteStep =>
             (proxyCache'.gen = proxyCache.gen + 1 /\ proxyCache'.map = {})
       /\ \A w \in proxyCache'.map : w.born = proxyCache'.gen
       /\ ReadStep =>
             /\ last'.got.w.target = Walk(heap', proxyRoot', last'.path)
             /\ last'.got.w.born = proxyCache'.gen
             /\ last'.got.w \in proxyCache'.map]_vars

\* after a whole-state write, a read of set.u made a proxy of the new u
C20_Witness ==
    /\ last.op = "read" /\ last.path = <<"set", "u">>
    /\ ~last.got.cached
    /\ proxyCache.gen = 1
    /\ last.got.w.born = 1
    /\ last.got.w.target = Walk(heap, proxyRoot, <<"set", "u">>)

\* The step raised PatchPathFailure: a patch met a path segment that is
\* missing or does not hold an object.
PatchFailed == last'.error = "PatchPathFailure"

\* The value read through the proxy (the shadow root's set) and the snapshot.
ShadowView == View(heap, Walk(heap, proxyRoot, <<"set">>))
SnapshotView == View(heap, state)

RECURSIVE SavedQueues(_)
SavedQueues(s) == IF s = <<>> THEN <<>> ELSE SavedQueues(Tail(s)) \o Head(s).batchQueue
Pending(s, q) == SavedQueues(s) \o q

\* The value read through the proxy is the snapshot with the pending records
\* applied in order: the snapshot itself when none is pending.
InStep(h, st, root, s, q) ==
    LET p == produce(h, st, Pending(s, q))
    IN p.ok /\ View(p.h, p.root) = View(h, Walk(h, root, <<"set">>))

\* The step applied records and left others pending, which were written
\* before them; the step dropped records: those of a batch(fn) that threw,
\* or those of a flush whose patch failed.
Overtakes == applied' # applied /\ Pending(saved', batchQueue') # <<>>
Drops == (last'.op = "batchThrow" /\ batchQueue # <<>>) \/ PatchFailed

(***************************************************************************)
(* C22 as stated.  Whenever the queue is empty, the value read through the *)
(* proxy (the shadow root's set) is structurally equal to the published    *)
(* snapshot, after any sequence of field writes, whole-state writes,       *)
(* flushes, mode switches and batch calls.                                 *)
(* Fails: the set trap assigns to the shadow root when the write is made,  *)
(* and the snapshot gets the records when and in the order they are        *)
(* applied.  While batching, proxy.set.a = 1 then proxy.set = {a: 2, ...}  *)
(* then update() leaves a: 2 in the shadow root and a: 1 in the snapshot;  *)
(* a batch(fn) that writes and throws leaves its writes in the shadow      *)
(* root.                                                                   *)
(***************************************************************************)
C22_ReadEqualsSnapshot == batchQueue = <<>> => ShadowView = SnapshotView

(***************************************************************************)
(* C22.  The value read through the proxy is the snapshot with the records *)
(* still pending (queued, or saved by a batch(fn) in progress) applied in  *)
(* the order they were written, and so is structurally equal to the        *)
(* snapshot when none is pending.  Every step keeps this so except a step  *)
(* that applies records while earlier ones stay pending (a whole-state     *)
(* write, or a flush inside batch(fn), that overtakes them) and a step     *)
(* that drops records: a batch(fn) that throws after writing, or a flush   *)
(* whose patch fails.                                                      *)
(***************************************************************************)
C22_ReadIsSnapshotWithPending ==
    [][(InStep(heap, state, proxyRoot, saved, batchQueue) /\ ~Overtakes /\ ~Drops)
          => InStep(heap', state', proxyRoot', saved', batchQueue')]_vars

\* a flush of two records left an empty queue and the value read through
\* the proxy equal to the snapshot
C22_Witness ==
    /\ last.op = "update" /\ last.count = 2 /\ last.error = "none"
    /\ batchQueue = <<>> /\ saved = <<>>
    /\ ShadowView = SnapshotView
    /\ InStep(heap, state, proxyRoot, saved, batchQueue)
    /\ CellAt(heap, state, <<"a">>) = Num(1)
    /\ CellAt(heap, state, <<"u", "n">>) = Num(2)

(***************************************************************************)
(* C23.  In every reachable state, if the mode is Immediate (batchUpdate   *)
(* is false) then the queue is empty; the same holds of every mode and     *)
(* queue saved by a batch(fn) in progress, which its end restores.         *)
(***************************************************************************)
C23_ImmediateHasEmptyQueue ==
    /\ ~batchUpdate => batchQueue = <<>>
    /\ \A i \in 1..Len(saved) : ~saved[i].batchUpdate => saved[i].batchQueue = <<>>

\* a batch(fn) begun in Immediate mode queued two records, flushed them at
\* its return and restored Immediate mode
C23_Witness ==
    /\ last.op = "batchReturn" /\ last.count = 2 /\ last.error = "none"
    /\ ~batchUpdate
    /\ batchQueue = <<>>
    /\ saved = <<>>

\* The rids of the records of a queue, and of the records the step applied.
QueueRids(q) == {q[i].rid : i \in 1..Len(q)}
AppliedInStep == {applied'[i].rid : i \in (Len(applied) + 1)..Len(applied')}

(***************************************************************************)
(* C25.  A flush leaves the queue empty, whether it applied the records    *)
(* or its patch failed and it applied none.  A record that has left the    *)
(* queue never comes back: after a step the queue holds records it held    *)
(* before and the record of the write just made, and a step applies only   *)
(* records of the queue and the write just made, none that was applied     *)
(* before.  So no later flush applies the records a flush took.            *)
(***************************************************************************)
C25_FlushTakesRecordsForGood ==
    [][/\ FlushStep =>
             /\ batchQueue' = <<>>
             /\ \/ last'.error = "none" /\ applied' = applied \o Rids(batchQueue)
                \/ PatchFailed /\ applied' = applied
       /\ QueueRids(batchQueue') \subseteq QueueRids(batchQueue) \cup {writes + 1}
       /\ AppliedInStep \subseteq QueueRids(batchQueue) \cup {writes + 1}
       /\ AppliedInStep \cap QueueRids(applied) = {}
       /\ QueueRids(batchQueue) \cup QueueRids(applied) \subseteq 1..writes
       /\ IsPrefix(applied, applied')]_vars

\* a flush failed on the record of write 1 and dropped it; a later flush
\* applied the record of write 3 only
C25_Witness ==
    /\ last.op = "update" /\ last.count = 1 /\ last.error = "none"
    /\ batchQueue = <<>>
    /\ writes = 3
    /\ Rids(applied) = <<[rid |-> 2, path |-> <<>>], [rid |-> 3, path |-> <<"a">>]>>
    /\ CellAt(heap, state, <<"a">>) = Num(3)

\* The object a field write assigned to (the target of the proxy written
\* through) and the path of the record the set trap made of the write.
MutatedObject == last'.got.w.target
RecordPath == Append(last'.got.w.path, Last(last'.path))

(***************************************************************************)
(* C24.  The record of every field write carries the path at which the     *)
(* object that the write assigned to is located in the shadow root, also   *)
(* when the write is made through a proxy the caller got earlier and kept. *)
(* Fails: a proxy keeps the target and the path it was made with.  After   *)
(* const u = proxy.set.u and proxy.set.u = {n: 1}, the write u.n = 5       *)
(* assigns to the object that is no longer in the shadow root and reports  *)
(* the path set.u.n, where another object is now.                          *)
(***************************************************************************)
C24_RecordPathLocatesTarget ==
    [][(FieldWriteStep /\ last'.error # "CloneFailure") =>
          Walk(heap', proxyRoot', Front(RecordPath)) = MutatedObject]_vars

====
